---- MODULE Spec2Model ----
(***************************************************************************)
(* GoPack: a reliable message-delivery client over one TCP stream.         *)
(* The module models src/lib/protocol.go (the codec and the Packet) and    *)
(* src/lib/memorystorage.go (memoryStorage, lines 126-272, and GoPack,     *)
(* lines 274-486).  Two clients, "A" and "B", run the same code; every     *)
(* piece of program state is a function of the client.                     *)
(*                                                                         *)
(* Go slices and the heap are 0-based: positions handed to Less, Swap, up, *)
(* down and stored in index are the Go positions, and element i of the Go  *)
(* slice is priorityQueue[i + 1] of the TLA+ sequence.                     *)
(***************************************************************************)
EXTENDS Integers, Sequences, FiniteSets, Bags, TLC

(* ------------------------------ bounds -------------------------------- *)

\* The clock (seconds) runs from 0 to MaxNow.
MaxNow == 5

\* Commits per client.
MaxCommit == 1

\* Frames in flight in one direction (conn.Write blocks on a full pipe).
MaxWire == 2

\* Frames the environment (the peer of the single-client specification) sends.
MaxInject == 3

\* Calls of Save in the storage specification.
MaxSave == 3

\* Message ids handed to Save and Confirm in the storage specification.
MaxStorageID == 2

\* Message ids of the environment's own messages.
MaxPeerID == 1

\* The dials Conn makes after the first connection.
MaxDial == 2

(* ------------------------- program constants -------------------------- *)

MsgTypeSend == 1

MsgTypeAck == 2

MsgTypeReceived == 3

MsgTypeRelease == 4

MsgTypeCompleted == 5

Qos0 == 0

Qos1 == 1

Qos2 == 2

\* retry: 5 * RetryTimes seconds of backoff.
RetrySeconds == 5

Clients == {"A", "B"}

Peer(c) == IF c = "A" THEN "B" ELSE "A"

(* ------------------------------ codec --------------------------------- *)

byteToBool(b) == IF b = 1 THEN TRUE ELSE FALSE

boolToByte(b) == IF b THEN 1 ELSE 0

\* encodeUint16 with the low byte first.
encodeUint16LittleEndian(num) == << num % 256, (num \div 256) % 256 >>

encodeUint16(num) == << (num \div 256) % 256, num % 256 >>

\* The bit fields of the fixed header do not overlap for msgType < 16,
\* qos < 4 and dup < 2, so the bitwise or of the shifted fields is their sum;
\* byte() keeps the low 8 bits.
fixedHeaderOf(msgType, qos, dup) == ((msgType * 16) + (qos * 4) + (dup * 2)) % 256

\* A nil payload and an empty payload are both the empty sequence: Encode
\* writes the same bytes for both.
Encode(msgType, qos, dup, msgID, payload) ==
    LET remainingLength == Len(payload) % 65536
    IN  [ MsgType         |-> msgType,
          Qos             |-> qos,
          Dup             |-> byteToBool(dup),
          MsgID           |-> msgID,
          RemainingLength |-> remainingLength,
          TotalLength     |-> (5 + remainingLength) % 65536,
          Payload         |-> payload,
          Buffer          |-> << fixedHeaderOf(msgType, qos, dup) >>
                                  \o encodeUint16(msgID)
                                  \o encodeUint16(remainingLength)
                                  \o payload,
          Confirm         |-> FALSE,
          RetryTimes      |-> 0,
          Timestamp       |-> 0 ]

\* The nil *Packet.
NoPacket ==
    [ MsgType |-> 0, Qos |-> 0, Dup |-> FALSE, MsgID |-> 0,
      RemainingLength |-> 0, TotalLength |-> 0, Payload |-> << >>,
      Buffer |-> << >>, Confirm |-> FALSE, RetryTimes |-> 0, Timestamp |-> 0 ]

\* Decode returns (packet, err); ok is err = nil.
Decode(buf) ==
    IF Len(buf) < 1 THEN [ok |-> FALSE, packet |-> NoPacket]
    ELSE IF Len(buf) < 3 THEN [ok |-> FALSE, packet |-> NoPacket]
    ELSE IF Len(buf) < 5 THEN [ok |-> FALSE, packet |-> NoPacket]
    ELSE
      LET fixedHeader     == buf[1]
          remainingLength == buf[4] * 256 + buf[5]
      IN  IF Len(buf) - 5 < remainingLength
          THEN [ok |-> FALSE, packet |-> NoPacket]
          ELSE [ok |-> TRUE,
                packet |->
                  [ MsgType         |-> fixedHeader \div 16,
                    Qos             |-> (fixedHeader % 16) \div 4,
                    Dup             |-> byteToBool((fixedHeader % 4) \div 2),
                    MsgID           |-> buf[2] * 256 + buf[3],
                    RemainingLength |-> remainingLength,
                    TotalLength     |-> 0,
                    Payload         |-> SubSeq(buf, 6, 5 + remainingLength),
                    Buffer          |-> buf,
                    Confirm         |-> FALSE,
                    RetryTimes      |-> 0,
                    Timestamp       |-> 0 ]]

\* Packet.Clone: a field-by-field copy.
Clone(packet) ==
    [ MsgType         |-> packet.MsgType,
      Qos             |-> packet.Qos,
      Dup             |-> packet.Dup,
      MsgID           |-> packet.MsgID,
      RemainingLength |-> packet.RemainingLength,
      TotalLength     |-> packet.TotalLength,
      Payload         |-> packet.Payload,
      Buffer          |-> packet.Buffer,
      Confirm         |-> packet.Confirm,
      RetryTimes      |-> packet.RetryTimes,
      Timestamp       |-> packet.Timestamp ]

(* --------------------------- memoryStorage ---------------------------- *)
(* A storage value ms is a record [priorityQueue, index]: the slice and    *)
(* the map guarded by muxPriorityQueue.  index is a function whose domain  *)
(* is the set of keys present in the Go map.                               *)

\* A Go map with no key.
EmptyMap == [x \in {} |-> 0]

newMemoryStorage == [ priorityQueue |-> << >>, index |-> EmptyMap ]

StorageLen(ms) == Len(ms.priorityQueue)

\* The old MemoryStorage.Less of lines 27-39 compared the other way round.
LessReversed(ms, i, j) ==
    LET item1 == ms.priorityQueue[i + 1]
        item2 == ms.priorityQueue[j + 1]
    IN  IF item1.Confirm /\ ~item2.Confirm THEN TRUE
        ELSE IF ~item1.Confirm /\ item2.Confirm THEN FALSE
        ELSE IF item1.Timestamp = item2.Timestamp
             THEN item1.MsgID > item2.MsgID
             ELSE item1.Timestamp > item2.Timestamp

Less(ms, i, j) ==
    LET item1 == ms.priorityQueue[i + 1]
        item2 == ms.priorityQueue[j + 1]
    IN  IF item1.Confirm /\ ~item2.Confirm THEN TRUE
        ELSE IF ~item1.Confirm /\ item2.Confirm THEN FALSE
        ELSE IF item1.Timestamp = item2.Timestamp
             THEN item1.MsgID < item2.MsgID
             ELSE item1.Timestamp < item2.Timestamp

\* index[k] = v on a Go map.
MapSet(m, k, v) == [x \in (DOMAIN m) \cup {k} |-> IF x = k THEN v ELSE m[x]]

\* delete(m, k) on a Go map.
MapDelete(m, k) == [x \in (DOMAIN m) \ {k} |-> m[x]]

Swap(ms, i, j) ==
    LET n == Len(ms.priorityQueue)
    IN  IF i >= 0 /\ i < n /\ j >= 0 /\ j < n
        THEN LET q == [ms.priorityQueue EXCEPT ![i + 1] = ms.priorityQueue[j + 1],
                                               ![j + 1] = ms.priorityQueue[i + 1]]
                 ix1 == MapSet(ms.index, q[i + 1].MsgID, i)
                 ix2 == MapSet(ix1, q[j + 1].MsgID, j)
             IN  [priorityQueue |-> q, index |-> ix2]
        ELSE ms

Push(ms, packet) ==
    LET idx == Len(ms.priorityQueue)
    IN  [priorityQueue |-> Append(ms.priorityQueue, packet),
         index         |-> MapSet(ms.index, packet.MsgID, idx)]

\* Pop returns the last element, or nil (ok = FALSE) on an empty slice.
Pop(ms) ==
    LET n == Len(ms.priorityQueue)
    IN  IF n > 0
        THEN [ms |-> [ms EXCEPT !.priorityQueue = SubSeq(ms.priorityQueue, 1, n - 1)],
              ok |-> TRUE, packet |-> ms.priorityQueue[n]]
        ELSE [ms |-> ms, ok |-> FALSE, packet |-> NoPacket]

(* container/heap, as called at lines 219, 227, 234 and 252.  Go's integer *)
(* division truncates toward zero, so the parent of position 0 is 0.       *)

heapParent(j) == IF j <= 0 THEN 0 ELSE (j - 1) \div 2

RECURSIVE heapUp(_, _)
heapUp(ms, j) ==
    LET i == heapParent(j)
    IN  IF i = j \/ ~Less(ms, j, i) THEN ms
        ELSE heapUp(Swap(ms, i, j), i)

\* down(h, i, n) returns the storage and the position the element ended at.
RECURSIVE heapDown(_, _, _)
heapDown(ms, i, n) ==
    LET j1 == 2 * i + 1
    IN  IF j1 >= n \/ j1 < 0 THEN [ms |-> ms, i |-> i]
        ELSE LET j2 == j1 + 1
                 j  == IF j2 < n /\ Less(ms, j2, j1) THEN j2 ELSE j1
             IN  IF ~Less(ms, j, i) THEN [ms |-> ms, i |-> i]
                 ELSE heapDown(Swap(ms, i, j), j, n)

heapPush(ms, packet) ==
    LET pushed == Push(ms, packet)
    IN  heapUp(pushed, StorageLen(pushed) - 1)

heapPop(ms) ==
    LET n == StorageLen(ms) - 1
    IN  Pop(heapDown(Swap(ms, 0, n), 0, n).ms)

heapFix(ms, i) ==
    LET d == heapDown(ms, i, StorageLen(ms))
    IN  IF ~(d.i > i) THEN heapUp(d.ms, i) ELSE d.ms

Save(ms, packet) == heapPush(ms, packet)

\* Unconfirmed at clock t (time.Now().Unix() is read under the mutex).  One
\* pass of the for loop: r is the value of heap.Pop(ms), taken once.
RECURSIVE Unconfirmed(_, _)
Unconfirmed(ms, t) ==
    CHOOSE res \in
      { IF r.ok
        THEN LET m1 == [r.ms EXCEPT !.index = MapDelete(r.ms.index, r.packet.MsgID)]
             IN  IF r.packet.Confirm THEN Unconfirmed(m1, t)
                 ELSE IF r.packet.Timestamp > t
                      THEN [ms |-> heapPush(m1, r.packet), ok |-> FALSE, packet |-> NoPacket]
                      ELSE [ms |-> m1, ok |-> TRUE, packet |-> r.packet]
        ELSE [ms |-> r.ms, ok |-> FALSE, packet |-> NoPacket]
        : r \in {heapPop(ms)} } : TRUE

Confirm(ms, id) ==
    IF id \in DOMAIN ms.index
    THEN LET idx == ms.index[id]
             q   == [ms.priorityQueue EXCEPT ![idx + 1].Confirm = TRUE]
             m1  == [ms EXCEPT !.priorityQueue = q]
         IN  [ms |-> heapFix(m1, idx), ok |-> TRUE, packet |-> q[idx + 1]]
    ELSE [ms |-> ms, ok |-> FALSE, packet |-> NoPacket]

\* The side map holds only payloads made by Decode, which are never nil; a
\* missing key reads as nil (ok = FALSE).
Receive(pk, id, payload) == MapSet(pk, id, payload)

Release(pk, id) ==
    IF id \in DOMAIN pk
    THEN [packets |-> MapDelete(pk, id), ok |-> TRUE, payload |-> pk[id]]
    ELSE [packets |-> pk, ok |-> FALSE, payload |-> << >>]

(* ------------------------------- state -------------------------------- *)

VARIABLES
    priorityQueue,  \* [client -> the heap slice of its storage]
    index,          \* [client -> the index map of its storage]
    packets,        \* [client -> the QoS 2 side map]
    uniqueID,       \* [client -> the id counter]
    now,            \* the clock, in seconds
    conn,           \* [client -> "up" | "down"]: the connection epoch
    wpc,            \* [client -> the writer's position: "loop" (at its select) |
                    \*  "save" | "write" | "done" | "blocked" | "panic"]
    wpkt,           \* [client -> the packet the writer took from Unconfirmed]
    rpc,            \* [client -> the reader's position: "loop" (in readPacket) |
                    \*  "received" | "release" | "select" | "done" | "blocked" |
                    \*  "panic"]
    rpkt,           \* [client -> the packet the reader is handling]
    wire,           \* [client -> the frames in flight to that client]
    delivered,      \* [client -> the payloads handed to Callback(payload, nil)]
    written,        \* [client -> what its writer wrote: headers and RetryTimes]
    acked,          \* [client -> <<MsgType, MsgID>> of the ACK, RECEIVED and
                    \*  COMPLETED packets its reader handled]
    committed,      \* [client -> [msg id -> the qos Commit was called with]]
    injected,       \* the bag of frames the environment sent so far
    saves,          \* storage specification: Save calls made
    confirmed,      \* storage specification: the ids Confirm returned a packet
                    \*  for, with no Save of that id since
    ret,            \* storage specification: what the last call returned
    sup,            \* [client -> the position of Conn: "dial" | "wait" | "join" | "sleep"]
    errCh,          \* [client -> the errors buffered in errCh]
    exitCh,         \* [client -> "open" | "closed"]
    connErr,        \* [client -> the error Conn received from errCh]
    dials,          \* [client -> the dials made after the first connection]
    raised,         \* [client -> the transport errors that occurred]
    cbErrs,         \* [client -> the errors handed to Callback(nil, err)]
    fin,            \* function specifications: the arguments of the call
    fout            \* function specifications: what the call returned

\* The variables only the storage specification writes.
stVars == << saves, confirmed, ret >>

\* The largest uint16: MsgID and RemainingLength are uint16.
MaxUint16 == 65535

\* NewGoPack's defaults.
DefaultMaxPacketNumber == 20

DefaultHeartbeat == 1000

\* make(chan error, 2)
ErrChCapacity == 2

\* The nil error.
NoError == << "nil", 0 >>

\* The variables of Conn, the supervisor of a connection epoch.
epVars == << sup, errCh, exitCh, connErr, dials, raised, cbErrs >>

\* The variables of the specifications of single functions.
fnVars == << fin, fout >>

vars == << priorityQueue, index, packets, uniqueID, committed, now, conn, wpc, wpkt,
           rpc, rpkt, wire, delivered, written, acked, injected, stVars, epVars, fnVars >>

MS(c) == [priorityQueue |-> priorityQueue[c], index |-> index[c]]

\* The storage of client c becomes ms.
SetMS(c, ms) ==
    /\ priorityQueue' = [priorityQueue EXCEPT ![c] = ms.priorityQueue]
    /\ index' = [index EXCEPT ![c] = ms.index]

\* The program after construction, connected.
InitProgram ==
    /\ priorityQueue = [c \in Clients |-> newMemoryStorage.priorityQueue]
    /\ index = [c \in Clients |-> newMemoryStorage.index]
    /\ packets = [c \in Clients |-> EmptyMap]
    /\ uniqueID = [c \in Clients |-> 0]
    /\ now = 0
    /\ conn = [c \in Clients |-> "up"]
    /\ wpc = [c \in Clients |-> "loop"]
    /\ wpkt = [c \in Clients |-> NoPacket]
    /\ rpc = [c \in Clients |-> "loop"]
    /\ rpkt = [c \in Clients |-> NoPacket]
    /\ wire = [c \in Clients |-> << >>]
    /\ delivered = [c \in Clients |-> << >>]
    /\ written = [c \in Clients |-> {}]
    /\ acked = [c \in Clients |-> {}]
    /\ committed = [c \in Clients |-> EmptyMap]
    /\ injected = EmptyBag
    /\ saves = 0
    /\ confirmed = {}
    /\ ret = [ok |-> FALSE, packet |-> NoPacket]
    /\ sup = [c \in Clients |-> "wait"]
    /\ errCh = [c \in Clients |-> << >>]
    /\ exitCh = [c \in Clients |-> "open"]
    /\ connErr = [c \in Clients |-> NoError]
    /\ dials = [c \in Clients |-> 0]
    /\ raised = [c \in Clients |-> {}]
    /\ cbErrs = [c \in Clients |-> << >>]

Init ==
    /\ InitProgram
    /\ fin = << >>
    /\ fout = << >>

\* What the writer's log keeps of a packet.
Header(p) ==
    [MsgType |-> p.MsgType, Qos |-> p.Qos, MsgID |-> p.MsgID, RetryTimes |-> p.RetryTimes]

\* The clock advances.
Tick ==
    /\ now < MaxNow
    /\ now' = now + 1
    /\ UNCHANGED << priorityQueue, index, packets, uniqueID, committed, conn, wpc, wpkt,
                    rpc, rpkt, wire, delivered, written, acked, injected, stVars, epVars, fnVars >>

(* ------------------------------ GoPack -------------------------------- *)

\* The payload of the message a client commits under id: one per message,
\* so that a delivered payload names its message.
CommitPayloads(c, id) == { << (IF c = "A" THEN 96 ELSE 64) + id >> }

\* Commit(payload, qos): UniqueID, Encode, Save.
Commit(c, payload, qos) ==
    /\ uniqueID[c] < MaxCommit
    /\ LET id == uniqueID[c] + 1
       IN  /\ uniqueID' = [uniqueID EXCEPT ![c] = id]
           /\ committed' = [committed EXCEPT ![c] = MapSet(@, id, qos)]
           /\ SetMS(c, Save(MS(c), Encode(MsgTypeSend, qos, 0, id, payload)))
    /\ UNCHANGED << packets, now, conn, wpc, wpkt, rpc, rpkt, wire, delivered,
                    written, acked, injected, stVars, epVars, fnVars >>

\* retry that also clones a QoS 0 packet.
retryAlways(packet, t) ==
    LET p1 == [Clone(packet) EXCEPT !.RetryTimes = packet.RetryTimes + 1]
    IN  [ok |-> TRUE,
         packet |-> [p1 EXCEPT !.Timestamp = t + RetrySeconds * p1.RetryTimes]]

\* retry that never schedules a retransmission.
retryNone(packet, t) ==
    [ok |-> FALSE, packet |-> NoPacket]

\* retry with a delay that does not grow with the number of retries.
retryFixedDelay(packet, t) ==
    IF packet.Qos = Qos0 THEN [ok |-> FALSE, packet |-> NoPacket]
    ELSE LET p1 == [Encode(packet.MsgType, packet.Qos, 1, packet.MsgID, packet.Payload)
                        EXCEPT !.RetryTimes = packet.RetryTimes + 1]
         IN  [ok |-> TRUE, packet |-> [p1 EXCEPT !.Timestamp = t + RetrySeconds]]

\* retry(packet) at clock t: (retryPacket, ok).
retry(packet, t) ==
    IF packet.Qos = Qos0 THEN [ok |-> FALSE, packet |-> NoPacket]
    ELSE IF packet.RetryTimes > 0
    THEN LET p1 == [Clone(packet) EXCEPT !.RetryTimes = packet.RetryTimes + 1]
         IN  [ok |-> TRUE,
              packet |-> [p1 EXCEPT !.Timestamp = t + RetrySeconds * p1.RetryTimes]]
    ELSE LET p1 == [Encode(packet.MsgType, packet.Qos, 1, packet.MsgID, packet.Payload)
                        EXCEPT !.RetryTimes = 1]
         IN  [ok |-> TRUE,
              packet |-> [p1 EXCEPT !.Timestamp = t + RetrySeconds * p1.RetryTimes]]

\* write, line 400: packet := Storage.Unconfirmed(); nil continues the loop.
WriterUnconfirmed(c) ==
    /\ conn[c] = "up"
    /\ exitCh[c] = "open"
    /\ wpc[c] = "loop"
    /\ \E r \in {Unconfirmed(MS(c), now)} :
           /\ SetMS(c, r.ms)
           /\ IF r.ok
              THEN /\ wpc' = [wpc EXCEPT ![c] = "save"]
                   /\ wpkt' = [wpkt EXCEPT ![c] = r.packet]
              ELSE UNCHANGED << wpc, wpkt >>
    /\ UNCHANGED << packets, uniqueID, committed, now, conn, rpc, rpkt, wire, delivered,
                    written, acked, injected, stVars, epVars, fnVars >>

\* A writer that goes on to conn.Write without saving the retry packet.
WriterSaveSkipped(c) ==
    /\ wpc[c] = "save"
    /\ wpc' = [wpc EXCEPT ![c] = "write"]
    /\ UNCHANGED << priorityQueue, index, packets, uniqueID, committed, now, conn, wpkt, rpc,
                    rpkt, wire, delivered, written, acked, injected, stVars, epVars, fnVars >>

\* write, lines 404-407: retry and, if it says so, Save of the retry packet.
WriterSave(c) ==
    /\ wpc[c] = "save"
    /\ LET r == retry(wpkt[c], now)
       IN  IF r.ok THEN SetMS(c, Save(MS(c), r.packet))
           ELSE UNCHANGED << priorityQueue, index >>
    /\ wpc' = [wpc EXCEPT ![c] = "write"]
    /\ UNCHANGED << packets, uniqueID, committed, now, conn, wpkt, rpc, rpkt, wire, delivered,
                    written, acked, injected, stVars, epVars, fnVars >>

\* write, line 408, the write succeeds and the frame travels to the peer
\* client.  A full pipe blocks conn.Write.
WriterWrite(c) ==
    /\ wpc[c] = "write"
    /\ Len(wire[Peer(c)]) < MaxWire
    /\ wire' = [wire EXCEPT ![Peer(c)] = Append(@, wpkt[c].Buffer)]
    /\ written' = [written EXCEPT ![c] = @ \cup {Header(wpkt[c])}]
    /\ wpc' = [wpc EXCEPT ![c] = "loop"]
    /\ wpkt' = [wpkt EXCEPT ![c] = NoPacket]
    /\ UNCHANGED << priorityQueue, index, packets, uniqueID, committed, now, conn, rpc, rpkt,
                    delivered, acked, injected, stVars, epVars, fnVars >>

\* write, line 408, the write succeeds and the peer is the environment,
\* which takes the frame at once.
WriterWriteEnv(c) ==
    /\ wpc[c] = "write"
    /\ written' = [written EXCEPT ![c] = @ \cup {Header(wpkt[c])}]
    /\ wpc' = [wpc EXCEPT ![c] = "loop"]
    /\ wpkt' = [wpkt EXCEPT ![c] = NoPacket]
    /\ UNCHANGED << priorityQueue, index, packets, uniqueID, committed, now, conn, rpc, rpkt,
                    wire, delivered, acked, injected, stVars, epVars, fnVars >>

\* write, lines 408-412: the write fails, the writer reports and returns;
\* the epoch ends and the frames in flight to the client are lost.
WriterWriteFail(c) ==
    /\ wpc[c] = "write"
    /\ conn' = [conn EXCEPT ![c] = "down"]
    /\ wpc' = [wpc EXCEPT ![c] = "loop"]
    /\ wpkt' = [wpkt EXCEPT ![c] = NoPacket]
    /\ wire' = [wire EXCEPT ![c] = << >>]
    /\ UNCHANGED << priorityQueue, index, packets, uniqueID, committed, now, rpc, rpkt,
                    delivered, written, acked, injected, stVars, epVars, fnVars >>

\* Conn: both loops have returned, the supervisor dials again.  Nothing in
\* lines 460-486 touches the storage.
Reconnect(c) ==
    /\ conn[c] = "down"
    /\ wpc[c] = "loop"
    /\ rpc[c] = "loop"
    /\ conn' = [conn EXCEPT ![c] = "up"]
    /\ UNCHANGED << priorityQueue, index, packets, uniqueID, committed, now, wpc, wpkt, rpc,
                    rpkt, wire, delivered, written, acked, injected, stVars, epVars, fnVars >>

\* read/readPacket, lines 339-369: the reader is at its select with a frame
\* to read on a live connection.
CanRead(c) ==
    /\ conn[c] = "up"
    /\ rpc[c] = "loop"
    /\ wire[c] # << >>

\* read, lines 358-362: where the reader is after a handle.  With exitCh
\* open its select takes the default branch and it is in readPacket again
\* ("loop"); with exitCh closed it is at the select ("select") and returns.
AfterHandle(c) == IF exitCh[c] = "closed" THEN "select" ELSE "loop"

\* The packet readPacket returns for the first frame in flight.
Inbound(c) == Decode(Head(wire[c]))

\* handle, lines 418-429: a SEND.  The side map and the callback belong to
\* the reader alone, so the step is the Save of the reply.
handleSend(c, packet) ==
    IF packet.Qos = Qos0
    THEN /\ delivered' = [delivered EXCEPT ![c] = Append(@, packet.Payload)]
         /\ UNCHANGED << priorityQueue, index, packets >>
    ELSE IF packet.Qos = Qos1
    THEN /\ SetMS(c, Save(MS(c), Encode(MsgTypeAck, Qos0, 0, packet.MsgID, << >>)))
         /\ delivered' = [delivered EXCEPT ![c] = Append(@, packet.Payload)]
         /\ UNCHANGED packets
    ELSE IF packet.Qos = Qos2
    THEN /\ packets' = [packets EXCEPT ![c] = Receive(@, packet.MsgID, packet.Payload)]
         /\ SetMS(c, Save(MS(c), Encode(MsgTypeReceived, Qos0, 0, packet.MsgID, << >>)))
         /\ UNCHANGED delivered
    ELSE UNCHANGED << priorityQueue, index, packets, delivered >>

\* handle of a RELEASE that delivers without consulting the side map's answer.
handleReleaseAlways(c, packet) ==
    LET r == Release(packets[c], packet.MsgID)
    IN  /\ packets' = [packets EXCEPT ![c] = r.packets]
        /\ delivered' = [delivered EXCEPT ![c] = Append(@, r.payload)]

\* handle, lines 436-440: a RELEASE.  Release and, for a payload that is not
\* nil, the callback; it returns before the reply is built.
handleRelease(c, packet) ==
    LET r == Release(packets[c], packet.MsgID)
    IN  /\ packets' = [packets EXCEPT ![c] = r.packets]
        /\ IF r.ok
           THEN delivered' = [delivered EXCEPT ![c] = Append(@, r.payload)]
           ELSE UNCHANGED delivered

\* The reader reads a SEND and handles it.
ReadSend(c) ==
    /\ CanRead(c)
    /\ Inbound(c).ok
    /\ Inbound(c).packet.MsgType = MsgTypeSend
    /\ handleSend(c, Inbound(c).packet)
    /\ wire' = [wire EXCEPT ![c] = Tail(@)]
    /\ rpc' = [rpc EXCEPT ![c] = AfterHandle(c)]
    /\ UNCHANGED << uniqueID, committed, now, conn, wpc, wpkt, rpkt, written, acked,
                    injected, stVars, epVars, fnVars >>

\* The reader reads an ACK and handles it, lines 430-431.
ReadAck(c) ==
    /\ CanRead(c)
    /\ Inbound(c).ok
    /\ Inbound(c).packet.MsgType = MsgTypeAck
    /\ SetMS(c, Confirm(MS(c), Inbound(c).packet.MsgID).ms)
    /\ acked' = [acked EXCEPT ![c] = @ \cup {<< MsgTypeAck, Inbound(c).packet.MsgID >>}]
    /\ wire' = [wire EXCEPT ![c] = Tail(@)]
    /\ rpc' = [rpc EXCEPT ![c] = AfterHandle(c)]
    /\ UNCHANGED << packets, uniqueID, committed, now, conn, wpc, wpkt, rpkt, delivered,
                    written, injected, stVars, epVars, fnVars >>

\* The reader reads a RECEIVED and confirms, lines 432-433.
ReadReceived(c) ==
    /\ CanRead(c)
    /\ Inbound(c).ok
    /\ Inbound(c).packet.MsgType = MsgTypeReceived
    /\ SetMS(c, Confirm(MS(c), Inbound(c).packet.MsgID).ms)
    /\ rpc' = [rpc EXCEPT ![c] = "received"]
    /\ rpkt' = [rpkt EXCEPT ![c] = Inbound(c).packet]
    /\ acked' = [acked EXCEPT ![c] = @ \cup {<< MsgTypeReceived, Inbound(c).packet.MsgID >>}]
    /\ wire' = [wire EXCEPT ![c] = Tail(@)]
    /\ UNCHANGED << packets, uniqueID, committed, now, conn, wpc, wpkt, delivered, written,
                    injected, stVars, epVars, fnVars >>

\* handle, lines 434-435: the RELEASE reply to a RECEIVED is saved.
HandleReceivedSave(c) ==
    /\ rpc[c] = "received"
    /\ SetMS(c, Save(MS(c), Encode(MsgTypeRelease, Qos1, 0, rpkt[c].MsgID, << >>)))
    /\ rpc' = [rpc EXCEPT ![c] = AfterHandle(c)]
    /\ rpkt' = [rpkt EXCEPT ![c] = NoPacket]
    /\ UNCHANGED << packets, uniqueID, committed, now, conn, wpc, wpkt, wire, delivered,
                    written, acked, injected, stVars, epVars, fnVars >>

\* The reader reads a RELEASE; handle takes the payload from the side map
\* and invokes the callback, lines 436-440.
ReadRelease(c) ==
    /\ CanRead(c)
    /\ Inbound(c).ok
    /\ Inbound(c).packet.MsgType = MsgTypeRelease
    /\ handleRelease(c, Inbound(c).packet)
    /\ wire' = [wire EXCEPT ![c] = Tail(@)]
    /\ rpc' = [rpc EXCEPT ![c] = "release"]
    /\ rpkt' = [rpkt EXCEPT ![c] = Inbound(c).packet]
    /\ UNCHANGED << priorityQueue, index, uniqueID, committed, now, conn, wpc, wpkt, written,
                    acked, injected, stVars, epVars, fnVars >>

\* handle, lines 441-442: after the callback has returned, the COMPLETED
\* reply to a RELEASE is saved.
HandleReleaseSave(c) ==
    /\ rpc[c] = "release"
    /\ SetMS(c, Save(MS(c), Encode(MsgTypeCompleted, Qos0, 0, rpkt[c].MsgID, << >>)))
    /\ rpc' = [rpc EXCEPT ![c] = AfterHandle(c)]
    /\ rpkt' = [rpkt EXCEPT ![c] = NoPacket]
    /\ UNCHANGED << packets, uniqueID, committed, now, conn, wpc, wpkt, wire, delivered,
                    written, acked, injected, stVars, epVars, fnVars >>

\* The reader reads a COMPLETED and handles it, lines 443-444.
ReadCompleted(c) ==
    /\ CanRead(c)
    /\ Inbound(c).ok
    /\ Inbound(c).packet.MsgType = MsgTypeCompleted
    /\ SetMS(c, Confirm(MS(c), Inbound(c).packet.MsgID).ms)
    /\ acked' = [acked EXCEPT ![c] = @ \cup {<< MsgTypeCompleted, Inbound(c).packet.MsgID >>}]
    /\ wire' = [wire EXCEPT ![c] = Tail(@)]
    /\ rpc' = [rpc EXCEPT ![c] = AfterHandle(c)]
    /\ UNCHANGED << packets, uniqueID, committed, now, conn, wpc, wpkt, rpkt, delivered,
                    written, injected, stVars, epVars, fnVars >>

(* ----------------------------- the peer -------------------------------- *)
(* In the single-client specification the peer is the environment.  It     *)
(* runs the same protocol: its own messages are SENDs it may repeat, and   *)
(* it answers only what the client wrote.                                  *)

EnvPayloads == { << >>, << 120 >> }

\* The packets of the frames the environment sent.
InjectedPackets == { Decode(f).packet : f \in BagToSet(injected) }

\* The client wrote a packet of this type, qos and id.
Wrote(c, msgType, qos, id) ==
    \E h \in written[c] : h.MsgType = msgType /\ h.Qos = qos /\ h.MsgID = id

EnvDup(msgType, id) ==
    IF \E p \in InjectedPackets : p.MsgType = msgType /\ p.MsgID = id THEN 1 ELSE 0

\* The frames the peer may send now.
EnvFrames(c) ==
    { Encode(MsgTypeSend, q, EnvDup(MsgTypeSend, id), id, pl).Buffer :
        << q, id, pl >> \in
          { t \in {Qos0, Qos1, Qos2} \X (1..MaxPeerID) \X EnvPayloads :
              \A p \in InjectedPackets :
                 (p.MsgType = MsgTypeSend /\ p.MsgID = t[2])
                    => (p.Qos = t[1] /\ p.Payload = t[3]) } }
    \cup { Encode(MsgTypeAck, Qos0, 0, id, << >>).Buffer :
             id \in { i \in 1..MaxCommit : Wrote(c, MsgTypeSend, Qos1, i) } }
    \cup { Encode(MsgTypeReceived, Qos0, 0, id, << >>).Buffer :
             id \in { i \in 1..MaxCommit : Wrote(c, MsgTypeSend, Qos2, i) } }
    \cup { Encode(MsgTypeRelease, Qos1, EnvDup(MsgTypeRelease, id), id, << >>).Buffer :
             id \in { i \in 1..MaxPeerID :
                        /\ Wrote(c, MsgTypeReceived, Qos0, i)
                        /\ \E p \in InjectedPackets :
                              p.MsgType = MsgTypeSend /\ p.Qos = Qos2 /\ p.MsgID = i } }
    \cup { Encode(MsgTypeCompleted, Qos0, 0, id, << >>).Buffer :
             id \in { i \in 1..MaxCommit : Wrote(c, MsgTypeRelease, Qos1, i) } }

\* A frame of the peer arrives on the client's connection.
EnvSend(c, frame) ==
    /\ conn[c] = "up"
    /\ BagCardinality(injected) < MaxInject
    /\ Len(wire[c]) < MaxWire
    /\ frame \in EnvFrames(c)
    /\ wire' = [wire EXCEPT ![c] = Append(@, frame)]
    /\ injected' = injected (+) SetToBag({frame})
    /\ UNCHANGED << priorityQueue, index, packets, uniqueID, committed, now, conn, wpc,
                    wpkt, rpc, rpkt, delivered, written, acked, stVars, epVars, fnVars >>

(* ------------------- the single-client specification ------------------ *)

Next ==
    \/ \E qos \in {Qos0, Qos1, Qos2} :
         \E payload \in CommitPayloads("A", uniqueID["A"] + 1) : Commit("A", payload, qos)
    \/ WriterUnconfirmed("A")
    \/ WriterSave("A")
    \/ WriterWriteEnv("A")
    \/ WriterWriteFail("A")
    \/ Reconnect("A")
    \/ ReadSend("A")
    \/ ReadAck("A")
    \/ ReadReceived("A")
    \/ HandleReceivedSave("A")
    \/ ReadRelease("A")
    \/ HandleReleaseSave("A")
    \/ ReadCompleted("A")
    \/ \E frame \in EnvFrames("A") : EnvSend("A", frame)
    \/ Tick

Spec == Init /\ [][Next]_vars

(* ---------------------- the storage specification --------------------- *)
(* Save, Unconfirmed and Confirm called in any order on one storage.       *)

StorageTimestamps == {0, 2, MaxNow + 1}

StoragePackets ==
    { [Encode(t[1], t[2], 0, id, << >>) EXCEPT !.Timestamp = ts] :
        t \in { << MsgTypeSend, Qos1 >>, << MsgTypeAck, Qos0 >> },
        id \in 1..MaxStorageID, ts \in StorageTimestamps }

StSave(packet) ==
    /\ saves < MaxSave
    /\ saves' = saves + 1
    /\ SetMS("A", Save(MS("A"), packet))
    /\ confirmed' = confirmed \ {packet.MsgID}
    /\ UNCHANGED << packets, uniqueID, committed, now, conn, wpc, wpkt, rpc, rpkt,
                    wire, delivered, written, acked, injected, ret, epVars, fnVars >>

StUnconfirmed ==
    /\ LET r == Unconfirmed(MS("A"), now)
       IN  /\ SetMS("A", r.ms)
           /\ ret' = [ok |-> r.ok, packet |-> r.packet]
    /\ UNCHANGED << packets, uniqueID, committed, now, conn, wpc, wpkt, rpc, rpkt,
                    wire, delivered, written, acked, injected, saves, confirmed, epVars, fnVars >>

StConfirm(id) ==
    /\ LET r == Confirm(MS("A"), id)
       IN  /\ SetMS("A", r.ms)
           /\ ret' = [ok |-> r.ok, packet |-> r.packet]
           /\ confirmed' = IF r.ok THEN confirmed \cup {id} ELSE confirmed
    /\ UNCHANGED << packets, uniqueID, committed, now, conn, wpc, wpkt, rpc, rpkt,
                    wire, delivered, written, acked, injected, saves, epVars, fnVars >>

NextStorage ==
    \/ \E packet \in StoragePackets : StSave(packet)
    \/ StUnconfirmed
    \/ \E id \in 1..MaxStorageID : StConfirm(id)
    \/ Tick

SpecStorage == Init /\ [][NextStorage]_vars

(* --------------------- the end-to-end specification ------------------- *)
(* Both clients run the code over one connection that stays up; what one   *)
(* writes the other reads, in order.                                       *)

\* "A" publishes at QoS 2; "B", the receiver, has a QoS 1 message of its own.
CommitQos(c) == IF c = "A" THEN {Qos2} ELSE {Qos1}

NextE2E ==
    \/ \E c \in Clients : \E qos \in CommitQos(c) :
         \E payload \in CommitPayloads(c, uniqueID[c] + 1) : Commit(c, payload, qos)
    \/ \E c \in Clients : WriterUnconfirmed(c)
    \/ \E c \in Clients : WriterSave(c)
    \/ \E c \in Clients : WriterWrite(c)
    \/ \E c \in Clients : ReadSend(c)
    \/ \E c \in Clients : ReadAck(c)
    \/ \E c \in Clients : ReadReceived(c)
    \/ \E c \in Clients : HandleReceivedSave(c)
    \/ \E c \in Clients : ReadRelease(c)
    \/ \E c \in Clients : HandleReleaseSave(c)
    \/ \E c \in Clients : ReadCompleted(c)
    \/ Tick

SpecE2E == Init /\ [][NextE2E]_vars

(* ---------------- the single client, a writable transport ------------- *)
(* The client publishes at QoS 1 over a transport that never fails; the    *)
(* peer publishes at every QoS level and may acknowledge.  The             *)
(* writer is fair (the loop of lines 394-414 runs forever) and the clock   *)
(* moves.                                                                  *)

EnvFramesLive(c) ==
    { f \in EnvFrames(c) :
        Decode(f).packet.MsgType \in {MsgTypeSend, MsgTypeAck, MsgTypeRelease} }

NextLive ==
    \/ \E payload \in CommitPayloads("A", uniqueID["A"] + 1) : Commit("A", payload, Qos1)
    \/ WriterUnconfirmed("A")
    \/ WriterSave("A")
    \/ WriterWriteEnv("A")
    \/ ReadSend("A")
    \/ ReadAck("A")
    \/ ReadRelease("A")
    \/ HandleReleaseSave("A")
    \/ \E frame \in EnvFramesLive("A") : EnvSend("A", frame)
    \/ Tick

SpecLive ==
    /\ Init
    /\ [][NextLive]_vars
    /\ WF_vars(WriterUnconfirmed("A"))
    /\ WF_vars(WriterSave("A"))
    /\ WF_vars(WriterWriteEnv("A"))
    /\ WF_vars(Tick)

(* ------------------------------ claims -------------------------------- *)

\* How many times the callback of client c got this payload.
Deliveries(c, payload) ==
    Cardinality({ i \in 1..Len(delivered[c]) : delivered[c][i] = payload })

\* C1: end to end at QoS 2, the receiver's callback is invoked at most once
\* with the payload of a message the publisher committed once.
C1_AtMostOnce ==
    \A c \in Clients : \A id \in DOMAIN committed[c] :
        committed[c][id] = Qos2 =>
            \A payload \in CommitPayloads(c, id) : Deliveries(Peer(c), payload) <= 1

\* Client c wrote SEND(id) at QoS 1 as its k-th retry (0: the first
\* transmission).
WroteSend1(c, id, k) ==
    [MsgType |-> MsgTypeSend, Qos |-> Qos1, MsgID |-> id, RetryTimes |-> k] \in written[c]

AckHandled(c, id) == << MsgTypeAck, id >> \in acked[c]

\* An unconfirmed SEND with this id is in the queue q.
SendQueued(q, id) ==
    \E i \in 1..Len(q) :
        /\ q[i].MsgType = MsgTypeSend
        /\ q[i].MsgID = id
        /\ ~q[i].Confirm

\* The k-th retry of SEND(id) is parked at a time the bounded clock never
\* reaches.
ParkedBeyondClock(c, id, k) ==
    \E i \in 1..Len(priorityQueue[c]) :
        /\ priorityQueue[c][i].MsgType = MsgTypeSend
        /\ priorityQueue[c][i].MsgID = id
        /\ priorityQueue[c][i].RetryTimes = k
        /\ priorityQueue[c][i].Timestamp > MaxNow

\* The writer writes the QoS 1 SEND it holds, and no ACK for it was handled.
WritesUnackedSend1(c) ==
    /\ WriterWriteEnv(c)
    /\ wpkt[c].MsgType = MsgTypeSend
    /\ wpkt[c].Qos = Qos1
    /\ ~AckHandled(c, wpkt[c].MsgID)

\* C2: a QoS 1 SEND for which no ACK was handled is still queued, unconfirmed,
\* after each of its transmissions, and with a fair writer and a writable
\* transport its next retry is eventually written (or an ACK is handled first,
\* or the retry is due after the end of the bounded clock).
C2_RetransmitUntilAck ==
    /\ [][WritesUnackedSend1("A") => SendQueued(priorityQueue'["A"], wpkt["A"].MsgID)]_vars
    /\ \A id \in 1..MaxCommit : \A k \in 0..1 :
          (WroteSend1("A", id, k) /\ ~AckHandled("A", id))
             ~> \/ WroteSend1("A", id, k + 1)
                \/ AckHandled("A", id)
                \/ ParkedBeyondClock("A", id, k + 1)

\* C2 witness: a QoS 1 SEND was retransmitted and no ACK for it was handled.
C2_Witness ==
    \E id \in 1..MaxCommit :
        WroteSend1("A", id, 0) /\ WroteSend1("A", id, 1) /\ ~AckHandled("A", id)

\* The peer has published nothing so far, so the client's queue never held
\* a reply packet.
NoPeerSend ==
    \A f \in BagToSet(injected) : Decode(f).packet.MsgType # MsgTypeSend

\* The reader handles the first ACK for a QoS 1 SEND that was already
\* written.
HandlesAckOfWrittenSend1(c) ==
    /\ ReadAck(c)
    /\ WroteSend1(c, Inbound(c).packet.MsgID, 0)
    /\ ~AckHandled(c, Inbound(c).packet.MsgID)

\* C3: while the peer publishes nothing, the first ACK(id) handled after the
\* QoS 1 SEND(id) was first written finds a queued packet with that id to confirm
\* (Confirm returns a packet), and once an ACK(id) was handled the writer
\* never writes SEND(id) again.
C3_AckFindsPacket ==
    [][/\ (NoPeerSend /\ HandlesAckOfWrittenSend1("A"))
            => Confirm(MS("A"), Inbound("A").packet.MsgID).ok
       /\ (NoPeerSend /\ WriterWriteEnv("A") /\ wpkt["A"].MsgType = MsgTypeSend
              /\ wpkt["A"].Qos = Qos1)
            => ~AckHandled("A", wpkt["A"].MsgID)]_vars

\* The positions of the queue q that hold an unconfirmed packet due at t.
DuePositions(q, t) ==
    { i \in 1..Len(q) : ~q[i].Confirm /\ q[i].Timestamp <= t }

\* p1 is not after p2 in (timestamp, msg_id) order.
NotAfter(p1, p2) ==
    \/ p1.Timestamp < p2.Timestamp
    \/ p1.Timestamp = p2.Timestamp /\ p1.MsgID <= p2.MsgID

\* Unconfirmed() hands out the least due unconfirmed packet of the queue, and
\* nothing exactly when no unconfirmed packet is due.
ReturnsLeastDue ==
    LET q == priorityQueue["A"]
    IN  StUnconfirmed =>
          IF DuePositions(q, now) = {}
          THEN ~ret'.ok
          ELSE /\ ret'.ok
               /\ \E i \in DuePositions(q, now) :
                     /\ ret'.packet = q[i]
                     /\ \A j \in DuePositions(q, now) : NotAfter(q[i], q[j])

\* Across Unconfirmed(), an unconfirmed packet that is not yet due and has an
\* index entry stays in the queue and its msg_id keeps an index entry.
ParkedStaysIndexed ==
    LET q == priorityQueue["A"]
    IN  StUnconfirmed =>
          \A i \in 1..Len(q) :
             (~q[i].Confirm /\ q[i].Timestamp > now /\ q[i].MsgID \in DOMAIN index["A"])
               => /\ \E j \in 1..Len(priorityQueue'["A"]) : priorityQueue'["A"][j] = q[i]
                  /\ q[i].MsgID \in DOMAIN index'["A"]

\* C4: unconfirmed() returns the due unconfirmed packet that is least in
\* (timestamp, msg_id) order, returns none exactly when none is due, and a
\* packet that is not yet due stays in the queue with its index entry.
C4_UnconfirmedLeastDue ==
    [][ReturnsLeastDue /\ ParkedStaysIndexed]_vars

\* p1 is strictly before p2 when unconfirmed packets come first, then the
\* earlier timestamp, then the smaller msg_id.
UnconfirmedFirstBefore(p1, p2) ==
    \/ ~p1.Confirm /\ p2.Confirm
    \/ p1.Confirm = p2.Confirm /\ p1.Timestamp < p2.Timestamp
    \/ p1.Confirm = p2.Confirm /\ p1.Timestamp = p2.Timestamp /\ p1.MsgID < p2.MsgID

\* p1 is strictly before p2 when confirmed packets come first, then the
\* earlier timestamp, then the smaller msg_id.
ConfirmedFirstBefore(p1, p2) ==
    \/ p1.Confirm /\ ~p2.Confirm
    \/ p1.Confirm = p2.Confirm /\ p1.Timestamp < p2.Timestamp
    \/ p1.Confirm = p2.Confirm /\ p1.Timestamp = p2.Timestamp /\ p1.MsgID < p2.MsgID

\* C5 as stated: the queue is ordered with unconfirmed packets first: Less
\* is that order, and no packet of the heap is before the one above it, so
\* the head of the queue is the least packet.
C5_UnconfirmedFirst ==
    LET q == priorityQueue["A"]
    IN  /\ \A i, j \in 1..Len(q) :
              Less(MS("A"), i - 1, j - 1) = UnconfirmedFirstBefore(q[i], q[j])
        /\ \A j \in 2..Len(q) :
              ~UnconfirmedFirstBefore(q[j], q[heapParent(j - 1) + 1])

\* C5 amended: the queue is ordered with confirmed packets first, then by
\* earlier timestamp, then by smaller msg_id: Less is that order, no packet
\* of the heap is before the one above it, and the head is the least packet.
C5_ConfirmedFirst ==
    LET q == priorityQueue["A"]
    IN  /\ \A i, j \in 1..Len(q) :
              Less(MS("A"), i - 1, j - 1) = ConfirmedFirstBefore(q[i], q[j])
        /\ \A j \in 2..Len(q) :
              ~ConfirmedFirstBefore(q[j], q[heapParent(j - 1) + 1])
        /\ \A j \in 1..Len(q) : ~ConfirmedFirstBefore(q[j], q[1])

\* C5 witness: a queue of three packets with a confirmed packet at its head,
\* an unconfirmed packet below it, and two packets of equal confirm bit that
\* differ in timestamp.
C5_Witness ==
    LET q == priorityQueue["A"]
    IN  /\ Len(q) = 3
        /\ q[1].Confirm
        /\ \E i \in 2..3 : ~q[i].Confirm
        /\ \E i, j \in 1..3 :
              q[i].Confirm = q[j].Confirm /\ q[i].Timestamp < q[j].Timestamp

\* C6: once Confirm(id) has returned a packet, and until a packet with that
\* id is saved again, Unconfirmed() returns no packet with that msg_id.
C6_ConfirmedNeverReturned ==
    [][StUnconfirmed => (ret'.ok => ret'.packet.MsgID \notin confirmed)]_vars

\* C7: after any sequence of Save, Unconfirmed and Confirm calls every queued
\* packet has an index entry, and every index entry is a position of the
\* queue that holds a packet with that msg_id.
C7_IndexConsistent ==
    LET q == priorityQueue["A"]
    IN  /\ \A i \in 1..Len(q) : q[i].MsgID \in DOMAIN index["A"]
        /\ \A m \in DOMAIN index["A"] :
              /\ index["A"][m] + 1 \in 1..Len(q)
              /\ q[index["A"][m] + 1].MsgID = m

\* No ACK, RECEIVED or COMPLETED for this msg_id was handled by client c.
NotYetConfirmed(c, id) ==
    \A t \in {MsgTypeAck, MsgTypeReceived, MsgTypeCompleted} : << t, id >> \notin acked[c]

\* The positions of the queue of client c that hold a packet with this msg_id.
EntriesOf(c, id) ==
    { i \in 1..Len(priorityQueue[c]) : priorityQueue[c][i].MsgID = id }

\* C8: in every reachable state of the client, each msg_id assigned by Commit
\* at QoS 1 or 2 for which no confirmation was handled has exactly one entry
\* in the priority queue, and index[msg_id] is the position of that entry.
C8_OneEntryPerUnconfirmedID ==
    \A id \in DOMAIN committed["A"] :
        (committed["A"][id] # Qos0 /\ NotYetConfirmed("A", id))
          => /\ Cardinality(EntriesOf("A", id)) = 1
             /\ id \in DOMAIN index["A"]
             /\ index["A"][id] + 1 \in EntriesOf("A", id)

\* How many packets of this type and msg_id the queue q holds.
CountIn(q, msgType, id) ==
    Cardinality({ i \in 1..Len(q) : q[i].MsgType = msgType /\ q[i].MsgID = id })

\* The reader handles a QoS 2 SEND: the payload is in the side map under the
\* msg_id afterwards, one more RECEIVED(id) is queued, no callback.
SendQos2Stored ==
    LET p == Inbound("A").packet
    IN  (ReadSend("A") /\ p.Qos = Qos2)
          => /\ p.MsgID \in DOMAIN packets'["A"]
             /\ packets'["A"][p.MsgID] = p.Payload
             /\ delivered' = delivered
             /\ CountIn(priorityQueue'["A"], MsgTypeReceived, p.MsgID)
                   = CountIn(priorityQueue["A"], MsgTypeReceived, p.MsgID) + 1

\* The reader handles a RELEASE: the callback gets the stored payload exactly
\* when the side map holds the msg_id, the entry is gone afterwards, and the
\* handler goes on to queue one more COMPLETED(id) either way.
ReleaseDeliversStored ==
    LET p == Inbound("A").packet
    IN  /\ ReadRelease("A")
              => /\ IF p.MsgID \in DOMAIN packets["A"]
                    THEN delivered'["A"] = Append(delivered["A"], packets["A"][p.MsgID])
                    ELSE delivered'["A"] = delivered["A"]
                 /\ p.MsgID \notin DOMAIN packets'["A"]
                 /\ rpc'["A"] = "release"
                 /\ rpkt'["A"].MsgID = p.MsgID
        /\ HandleReleaseSave("A")
              => CountIn(priorityQueue'["A"], MsgTypeCompleted, rpkt["A"].MsgID)
                   = CountIn(priorityQueue["A"], MsgTypeCompleted, rpkt["A"].MsgID) + 1

\* C9: at the receiver a QoS 2 SEND stores the payload and enqueues
\* RECEIVED(id) without a callback; a RELEASE invokes the callback exactly
\* when the side map holds the id, removes the entry and enqueues one
\* COMPLETED(id), also when it finds no entry.
C9_StoreThenRelease ==
    [][SendQos2Stored /\ ReleaseDeliversStored]_vars

\* C9 witness: two RELEASEs of one msg_id were handled (two COMPLETED are
\* queued) after one QoS 2 SEND, and the callback ran once.
C9_Witness ==
    \E id \in 1..MaxPeerID :
        /\ CountIn(priorityQueue["A"], MsgTypeCompleted, id) = 2
        /\ Len(delivered["A"]) = 1
        /\ id \notin DOMAIN packets["A"]

\* The writer of client c holds a QoS 0 packet that Unconfirmed() returned.
HoldsQos0(c) ==
    /\ wpc[c] \in {"save", "write"}
    /\ wpkt[c].Qos = Qos0

\* A step of the writer of client c after Unconfirmed(): retry and Save, or
\* the write, which succeeds or fails.
WriterStep(c) ==
    WriterSave(c) \/ WriterWriteEnv(c) \/ WriterWriteFail(c)

\* C10: a QoS 0 packet is written at most once: the writer's steps on a
\* QoS 0 packet, a successful or a failed write included, save nothing and
\* leave queue and index as they are, no queued QoS 0 packet is a retry
\* (RetryTimes > 0 or the dup bit set), and a QoS 0 SEND of the client is
\* written only if it was not written before.
C10_Qos0WrittenOnce ==
    [][/\ (HoldsQos0("A") /\ WriterStep("A"))
            => /\ priorityQueue'["A"] = priorityQueue["A"]
               /\ index'["A"] = index["A"]
       /\ \A i \in 1..Len(priorityQueue'["A"]) :
             priorityQueue'["A"][i].Qos = Qos0
               => /\ priorityQueue'["A"][i].RetryTimes = 0
                  /\ ~priorityQueue'["A"][i].Dup
       /\ (WriterWriteEnv("A") /\ wpkt["A"].MsgType = MsgTypeSend /\ wpkt["A"].Qos = Qos0)
            => ~Wrote("A", MsgTypeSend, Qos0, wpkt["A"].MsgID)]_vars

\* C10 witness: the QoS 0 SEND the client committed and a QoS 0 reply were
\* written, a later write failed, and nothing is queued.
C10_Witness ==
    /\ \E id \in DOMAIN committed["A"] :
          committed["A"][id] = Qos0 /\ Wrote("A", MsgTypeSend, Qos0, id)
    /\ \E h \in written["A"] : h.MsgType # MsgTypeSend /\ h.Qos = Qos0
    /\ conn["A"] = "down"
    /\ wpc["A"] = "loop"
    /\ priorityQueue["A"] = << >>

(* ------------------------ the connection epochs ------------------------ *)
(* Conn, lines 460-486, with the two loops it starts.  An error is the     *)
(* pair of the loop (or the dial) it comes from and the number of the      *)
(* dial.  The first connection is the one of Init.  time.Sleep is a step:  *)
(* the three seconds of line 484 are not measured against the clock.       *)

\* Conn, line 475 to line 468 of the next dial that succeeds: the channel
\* in the errCh field is closed.
ErrChClosed(c) == sup[c] \in {"sleep", "dial"}

\* errCh <- err: where the sending loop is after the statement.  A send on
\* a closed channel panics, a send on a full buffer with no receiver blocks,
\* any other send puts the error in the buffer and the loop returns.
SendOutcome(c) ==
    IF ErrChClosed(c) THEN "panic"
    ELSE IF Len(errCh[c]) >= ErrChCapacity THEN "blocked"
    ELSE "done"

\* errCh <- err: the buffer after the statement.
SendErr(c, err) ==
    IF SendOutcome(c) = "done" THEN Append(errCh[c], err) ELSE errCh[c]

\* read, lines 364-368: readPacket returns an error; the reader sends it to
\* errCh and returns.
ReaderFail(c) ==
    /\ conn[c] = "up"
    /\ rpc[c] = "loop"
    /\ errCh' = [errCh EXCEPT ![c] = SendErr(c, << "read", dials[c] >>)]
    /\ raised' = [raised EXCEPT ![c] = @ \cup {<< "read", dials[c] >>}]
    /\ rpc' = [rpc EXCEPT ![c] = SendOutcome(c)]
    /\ UNCHANGED << priorityQueue, index, packets, uniqueID, committed, now, conn, wpc, wpkt,
                    rpkt, wire, delivered, written, acked, injected, stVars,
                    sup, exitCh, connErr, dials, cbErrs, fnVars >>

\* read, lines 360-361: the reader is at its select and exitCh is closed.
ReaderReturn(c) ==
    /\ rpc[c] = "select"
    /\ exitCh[c] = "closed"
    /\ rpc' = [rpc EXCEPT ![c] = "done"]
    /\ UNCHANGED << priorityQueue, index, packets, uniqueID, committed, now, conn, wpc, wpkt,
                    rpkt, wire, delivered, written, acked, injected, stVars, epVars, fnVars >>

\* write, lines 408-412: conn.Write returns an error; the writer sends it to
\* errCh and returns.
WriterFail(c) ==
    /\ wpc[c] = "write"
    /\ errCh' = [errCh EXCEPT ![c] = SendErr(c, << "write", dials[c] >>)]
    /\ raised' = [raised EXCEPT ![c] = @ \cup {<< "write", dials[c] >>}]
    /\ wpc' = [wpc EXCEPT ![c] = SendOutcome(c)]
    /\ wpkt' = [wpkt EXCEPT ![c] = NoPacket]
    /\ UNCHANGED << priorityQueue, index, packets, uniqueID, committed, now, conn, rpc,
                    rpkt, wire, delivered, written, acked, injected, stVars,
                    sup, exitCh, connErr, dials, cbErrs, fnVars >>

\* write, lines 396-397: the writer is at its select and exitCh is closed.
WriterReturn(c) ==
    /\ wpc[c] = "loop"
    /\ exitCh[c] = "closed"
    /\ wpc' = [wpc EXCEPT ![c] = "done"]
    /\ UNCHANGED << priorityQueue, index, packets, uniqueID, committed, now, conn, wpkt, rpc,
                    rpkt, wire, delivered, written, acked, injected, stVars, epVars, fnVars >>

\* Conn, lines 472-473: err = <-errCh; close(exitCh).
ConnReceive(c) ==
    /\ sup[c] = "wait"
    /\ errCh[c] # << >>
    /\ connErr' = [connErr EXCEPT ![c] = Head(errCh[c])]
    /\ errCh' = [errCh EXCEPT ![c] = Tail(@)]
    /\ exitCh' = [exitCh EXCEPT ![c] = "closed"]
    /\ sup' = [sup EXCEPT ![c] = "join"]
    /\ UNCHANGED << priorityQueue, index, packets, uniqueID, committed, now, conn, wpc, wpkt,
                    rpc, rpkt, wire, delivered, written, acked, injected, stVars,
                    dials, raised, cbErrs, fnVars >>

\* A supervisor that closes errCh without waiting for the two loops.
ConnJoinEarly(c) ==
    /\ sup[c] = "join"
    /\ errCh' = [errCh EXCEPT ![c] = << >>]
    /\ cbErrs' = [cbErrs EXCEPT ![c] = Append(@, connErr[c])]
    /\ connErr' = [connErr EXCEPT ![c] = NoError]
    /\ conn' = [conn EXCEPT ![c] = "down"]
    /\ wire' = [wire EXCEPT ![c] = << >>]
    /\ sup' = [sup EXCEPT ![c] = "sleep"]
    /\ UNCHANGED << priorityQueue, index, packets, uniqueID, committed, now, wpc, wpkt,
                    rpc, rpkt, delivered, written, acked, injected, stVars,
                    exitCh, dials, raised, fnVars >>

\* Conn, lines 474-483: waitGroup.Wait() returns once both loops have
\* returned; close(errCh) drops what is still buffered, the error received
\* goes to cbErr, the connection is closed.
ConnJoin(c) ==
    /\ sup[c] = "join"
    /\ rpc[c] = "done"
    /\ wpc[c] = "done"
    /\ errCh' = [errCh EXCEPT ![c] = << >>]
    /\ cbErrs' = [cbErrs EXCEPT ![c] = Append(@, connErr[c])]
    /\ connErr' = [connErr EXCEPT ![c] = NoError]
    /\ conn' = [conn EXCEPT ![c] = "down"]
    /\ wire' = [wire EXCEPT ![c] = << >>]
    /\ sup' = [sup EXCEPT ![c] = "sleep"]
    /\ UNCHANGED << priorityQueue, index, packets, uniqueID, committed, now, wpc, wpkt,
                    rpc, rpkt, delivered, written, acked, injected, stVars,
                    exitCh, dials, raised, fnVars >>

\* Conn, line 484: time.Sleep returns.
ConnSleep(c) ==
    /\ sup[c] = "sleep"
    /\ sup' = [sup EXCEPT ![c] = "dial"]
    /\ UNCHANGED << priorityQueue, index, packets, uniqueID, committed, now, conn, wpc, wpkt,
                    rpc, rpkt, wire, delivered, written, acked, injected, stVars,
                    errCh, exitCh, connErr, dials, raised, cbErrs, fnVars >>

\* Conn, lines 462-464: the dial fails, the error goes to cbErr.
DialFail(c) ==
    /\ sup[c] = "dial"
    /\ dials[c] < MaxDial
    /\ dials' = [dials EXCEPT ![c] = @ + 1]
    /\ raised' = [raised EXCEPT ![c] = @ \cup {<< "dial", dials[c] + 1 >>}]
    /\ cbErrs' = [cbErrs EXCEPT ![c] = Append(@, << "dial", dials[c] + 1 >>)]
    /\ sup' = [sup EXCEPT ![c] = "sleep"]
    /\ UNCHANGED << priorityQueue, index, packets, uniqueID, committed, now, conn, wpc, wpkt,
                    rpc, rpkt, wire, delivered, written, acked, injected, stVars,
                    errCh, exitCh, connErr, fnVars >>

\* Conn, lines 465-471: the dial succeeds; new channels, go read(), go
\* write().  The reader passes its first select and is in readPacket.
DialOk(c) ==
    /\ sup[c] = "dial"
    /\ dials[c] < MaxDial
    /\ dials' = [dials EXCEPT ![c] = @ + 1]
    /\ conn' = [conn EXCEPT ![c] = "up"]
    /\ exitCh' = [exitCh EXCEPT ![c] = "open"]
    /\ errCh' = [errCh EXCEPT ![c] = << >>]
    /\ rpc' = [rpc EXCEPT ![c] = "loop"]
    /\ wpc' = [wpc EXCEPT ![c] = "loop"]
    /\ sup' = [sup EXCEPT ![c] = "wait"]
    /\ UNCHANGED << priorityQueue, index, packets, uniqueID, committed, now, wpkt,
                    rpkt, wire, delivered, written, acked, injected, stVars,
                    connErr, raised, cbErrs, fnVars >>

\* The peer acknowledges and publishes nothing.
EnvFramesConn(c) ==
    { f \in EnvFrames(c) : Decode(f).packet.MsgType = MsgTypeAck }

\* conn.Write returns, with or without an error.
WriteReturns(c) == WriterWriteEnv(c) \/ WriterFail(c)

\* net.DialTimeout returns, with or without an error.
DialReturns(c) == DialOk(c) \/ DialFail(c)

NextConn ==
    \/ \E payload \in CommitPayloads("A", uniqueID["A"] + 1) : Commit("A", payload, Qos1)
    \/ WriterUnconfirmed("A")
    \/ WriterSave("A")
    \/ WriterWriteEnv("A")
    \/ WriterFail("A")
    \/ WriterReturn("A")
    \/ ReadAck("A")
    \/ ReaderFail("A")
    \/ ReaderReturn("A")
    \/ ConnReceive("A")
    \/ ConnJoin("A")
    \/ ConnSleep("A")
    \/ DialFail("A")
    \/ DialOk("A")
    \/ \E frame \in EnvFramesConn("A") : EnvSend("A", frame)
    \/ Tick

\* Conn and the writer keep running and conn.Write returns; a reader at its
\* select runs; a dial returns.  Nothing makes the transport deliver data or
\* an error to a reader in readPacket, and nothing makes a dial succeed.
SpecConn ==
    /\ Init
    /\ [][NextConn]_vars
    /\ WF_vars(ConnReceive("A"))
    /\ WF_vars(ConnJoin("A"))
    /\ WF_vars(ConnSleep("A"))
    /\ WF_vars(DialReturns("A"))
    /\ WF_vars(ReaderReturn("A"))
    /\ WF_vars(WriterReturn("A"))
    /\ WF_vars(WriterUnconfirmed("A"))
    /\ WF_vars(WriterSave("A"))
    /\ WF_vars(WriteReturns("A"))
    /\ WF_vars(Tick)

\* A loop of client c has reported an I/O error that Conn has not received
\* yet.
ErrorReported(c) == sup[c] = "wait" /\ errCh[c] # << >>

\* C11: after a loop reports an I/O error, the other loop returns, the join
\* completes, the connection is closed and Conn is about to dial again.
C11_TeardownCompletes ==
    ErrorReported("A") ~> (sup["A"] = "dial" /\ conn["A"] = "down")

\* How many times Callback(nil, e) was invoked at client c.
ErrorCallbacks(c, e) ==
    Cardinality({ i \in 1..Len(cbErrs[c]) : cbErrs[c][i] = e })

\* C12: every transport error (a failed dial, a reader error, a writer
\* error) gets to Callback(nil, err) exactly once: never twice, nothing is
\* reported that did not occur, and once the epoch is torn down every error
\* that occurred has been reported.
C12_EveryErrorReportedOnce ==
    /\ \A i \in 1..Len(cbErrs["A"]) : cbErrs["A"][i] \in raised["A"]
    /\ \A e \in raised["A"] : ErrorCallbacks("A", e) <= 1
    /\ sup["A"] \in {"sleep", "dial"}
          => \A e \in raised["A"] : ErrorCallbacks("A", e) = 1

\* A step of Conn: receive, join and close, sleep, dial.
ConnStep(c) ==
    ConnReceive(c) \/ ConnJoin(c) \/ ConnSleep(c) \/ DialFail(c) \/ DialOk(c)

\* The queue q holds a packet of this type and msg_id with this RetryTimes.
Represented(q, msgType, id, k) ==
    \E i \in 1..Len(q) :
        q[i].MsgType = msgType /\ q[i].MsgID = id /\ q[i].RetryTimes = k

\* The k-th retry of the QoS 1 SEND(id) is queued, unconfirmed, at client c.
PendingSend1(c, id, k) ==
    \E i \in 1..Len(priorityQueue[c]) :
        /\ priorityQueue[c][i].MsgType = MsgTypeSend
        /\ priorityQueue[c][i].Qos = Qos1
        /\ priorityQueue[c][i].MsgID = id
        /\ priorityQueue[c][i].RetryTimes = k
        /\ ~priorityQueue[c][i].Confirm

\* SEND(id) was written as its k-th retry or a later one, or an ACK for it
\* was handled, or a retry of it is due after the end of the bounded clock,
\* or the bounded number of dials is used up.
WrittenLaterOrOut(c, id, k) ==
    \/ \E j \in k..(k + MaxDial + 1) : WroteSend1(c, id, j)
    \/ AckHandled(c, id)
    \/ \E j \in k..(k + MaxDial + 1) : ParkedBeyondClock(c, id, j)
    \/ dials[c] = MaxDial

\* C13: the steps of Conn leave queue, index and side map as they are; when
\* a write of a QoS 1 or 2 packet fails its retry clone is in the queue; and
\* a QoS 1 SEND that is queued unconfirmed when a loop reports an error is
\* eventually written (unless acknowledged, or out of the bounded horizon).
C13_QueueSurvivesReconnect ==
    /\ [][ConnStep("A") => /\ priorityQueue' = priorityQueue
                           /\ index' = index
                           /\ packets' = packets]_vars
    /\ [][(WriterFail("A") /\ wpkt["A"].Qos # Qos0)
            => Represented(priorityQueue'["A"], wpkt["A"].MsgType, wpkt["A"].MsgID,
                           wpkt["A"].RetryTimes + 1)]_vars
    /\ \A id \in 1..MaxCommit : \A k \in 0..(MaxDial + 1) :
          (ErrorReported("A") /\ PendingSend1("A", id, k))
             ~> WrittenLaterOrOut("A", id, k)

(* ------------------------------ NewGoPack ------------------------------ *)

\* The nil *Options and the nil *GoPack.
NilOptions ==
    [Nil |-> TRUE, Address |-> "", Callback |-> "nil", MaxPacketNumber |-> 0,
     Storage |-> "nil", Heartbeat |-> 0]

\* The *Options NewGoPack is called with.
OptionsInputs ==
    {NilOptions} \cup
    [Nil : {FALSE}, Address : {"", "host:1"}, Callback : {"nil", "cb"},
     MaxPacketNumber : {0, 7, DefaultMaxPacketNumber}, Storage : {"nil", "custom"},
     Heartbeat : {0, 500, DefaultHeartbeat}]

\* NewGoPack(opts): (gopack, err).  gopack.opts is the record returned; a nil
\* gopack is NilOptions.
NewGoPack(opts) ==
    IF opts.Nil \/ opts.Callback = "nil"
    THEN [called |-> TRUE, gopack |-> NilOptions, err |-> "ErrMissingParams"]
    ELSE LET o1 == IF opts.MaxPacketNumber = 0
                   THEN [opts EXCEPT !.MaxPacketNumber = DefaultMaxPacketNumber] ELSE opts
             o2 == IF o1.Heartbeat = 0
                   THEN [o1 EXCEPT !.Heartbeat = DefaultHeartbeat] ELSE o1
             o3 == IF o2.Storage = "nil"
                   THEN [o2 EXCEPT !.Storage = "memory"] ELSE o2
         IN  [called |-> TRUE, gopack |-> o3, err |-> "nil"]

NotCalled == [called |-> FALSE, gopack |-> NilOptions, err |-> "nil"]

InitNew ==
    /\ InitProgram
    /\ fin \in OptionsInputs
    /\ fout = NotCalled

CallNewGoPack ==
    /\ ~fout.called
    /\ fout' = NewGoPack(fin)
    /\ UNCHANGED << priorityQueue, index, packets, uniqueID, committed, now, conn, wpc, wpkt,
                    rpc, rpkt, wire, delivered, written, acked, injected, stVars, epVars,
                    fin >>

NextNew == CallNewGoPack

SpecNew == InitNew /\ [][NextNew]_vars

\* C14: NewGoPack returns ErrMissingParams and no client when the options
\* are absent, the callback is missing or the address is missing; otherwise
\* it returns a client with the options given, heartbeat defaulted to 1000,
\* max packet number to 20 and storage to the in-memory storage when unset.
C14_NewValidates ==
    fout.called =>
      IF fin.Nil \/ fin.Callback = "nil" \/ fin.Address = ""
      THEN fout.err = "ErrMissingParams" /\ fout.gopack = NilOptions
      ELSE /\ fout.err = "nil"
           /\ fout.gopack.Address = fin.Address
           /\ fout.gopack.Callback = fin.Callback
           /\ fout.gopack.Heartbeat
                 = (IF fin.Heartbeat = 0 THEN DefaultHeartbeat ELSE fin.Heartbeat)
           /\ fout.gopack.MaxPacketNumber
                 = (IF fin.MaxPacketNumber = 0 THEN DefaultMaxPacketNumber
                    ELSE fin.MaxPacketNumber)
           /\ fout.gopack.Storage
                 = (IF fin.Storage = "nil" THEN "memory" ELSE fin.Storage)

(* --------------------------- Encode and Decode ------------------------- *)

\* Payloads: none, one byte (the least and the greatest), two bytes, more
\* than 255 bytes, and the longest RemainingLength can describe.
CodecPayloads ==
    { << >>, << 0 >>, << 255 >>, << 1, 2 >>, [i \in 1..300 |-> i % 256] }

LongestPayload == [i \in 1..MaxUint16 |-> 7]

\* The arguments Encode is called with.
CodecInputs ==
    [msgType : MsgTypeSend..MsgTypeCompleted, qos : Qos0..Qos2, dup : {0, 1},
     msgID : {0, 1, 255, 256, MaxUint16}, payload : CodecPayloads]
    \cup
    [msgType : {MsgTypeSend, MsgTypeCompleted}, qos : {Qos2}, dup : {1},
     msgID : {MaxUint16}, payload : {LongestPayload}]

NotEncoded == [stage |-> "none", packet |-> NoPacket, ok |-> FALSE, decoded |-> NoPacket]

InitCodec ==
    /\ InitProgram
    /\ fin \in CodecInputs
    /\ fout = NotEncoded

\* packet := Encode(msgType, qos, dup, msgID, payload)
CallEncode ==
    /\ fout.stage = "none"
    /\ fout' = [fout EXCEPT !.stage = "encoded",
                            !.packet = Encode(fin.msgType, fin.qos, fin.dup, fin.msgID,
                                              fin.payload)]
    /\ UNCHANGED << priorityQueue, index, packets, uniqueID, committed, now, conn, wpc, wpkt,
                    rpc, rpkt, wire, delivered, written, acked, injected, stVars, epVars,
                    fin >>

\* decoded, err := Decode(packet.Buffer)
CallDecode ==
    /\ fout.stage = "encoded"
    /\ \E r \in {Decode(fout.packet.Buffer)} :
          fout' = [fout EXCEPT !.stage = "decoded", !.ok = r.ok, !.decoded = r.packet]
    /\ UNCHANGED << priorityQueue, index, packets, uniqueID, committed, now, conn, wpc, wpkt,
                    rpc, rpkt, wire, delivered, written, acked, injected, stVars, epVars,
                    fin >>

NextCodec == CallEncode \/ CallDecode

SpecCodec == InitCodec /\ [][NextCodec]_vars

\* C15: Decode of the buffer Encode made succeeds and gives back msg_type,
\* qos, dup, msg_id and payload, with timestamp 0, retry_times 0 and confirm
\* false.
C15_DecodeInvertsEncode ==
    fout.stage = "decoded" =>
      /\ fout.ok
      /\ fout.decoded.MsgType = fin.msgType
      /\ fout.decoded.Qos = fin.qos
      /\ fout.decoded.Dup = (fin.dup = 1)
      /\ fout.decoded.MsgID = fin.msgID
      /\ fout.decoded.Payload = fin.payload
      /\ fout.decoded.Timestamp = 0
      /\ fout.decoded.RetryTimes = 0
      /\ ~fout.decoded.Confirm

\* C15 witness: the round trip was made for a COMPLETED packet with the dup
\* bit, the greatest msg_id and a payload whose length needs both bytes of
\* RemainingLength.
C15_Witness ==
    /\ fout.stage = "decoded"
    /\ fout.ok
    /\ fin.msgType = MsgTypeCompleted
    /\ fin.dup = 1
    /\ fin.msgID = MaxUint16
    /\ Len(fin.payload) = 300

(* --------------------------- QoS 2 publisher --------------------------- *)

\* The reader has handled a reply of this type for id: its Confirm and, for
\* a RECEIVED, its Save of the RELEASE are done.
ReplyHandled(c, msgType, id) ==
    /\ << msgType, id >> \in acked[c]
    /\ ~(rpc[c] = "received" /\ rpkt[c].MsgID = id)

\* The writer writes the packet of this type and qos that it holds.
WritesHeld(c, msgType, qos) ==
    /\ WriterWriteEnv(c)
    /\ wpkt[c].MsgType = msgType
    /\ wpkt[c].Qos = qos

\* C16: while the peer publishes nothing, the writer never writes the QoS 2
\* SEND(id) once RECEIVED(id) has been handled, and never writes RELEASE(id)
\* once COMPLETED(id) has been handled, whatever the interleaving of the
\* reader and the writer.
C16_SendStopsAtReceived ==
    [][/\ (NoPeerSend /\ WritesHeld("A", MsgTypeSend, Qos2))
            => ~ReplyHandled("A", MsgTypeReceived, wpkt["A"].MsgID)
       /\ (NoPeerSend /\ WritesHeld("A", MsgTypeRelease, Qos1))
            => ~ReplyHandled("A", MsgTypeCompleted, wpkt["A"].MsgID)]_vars

(* ------------------------- what Confirm marks -------------------------- *)

\* The packet Confirm marks for the reply the reader is about to handle is
\* of this type (or Confirm finds none).
ConfirmMarksOnly(c, msgType) ==
    \A r \in {Confirm(MS(c), Inbound(c).packet.MsgID)} :
        r.ok => r.packet.MsgType = msgType

\* No reply of these types was handled for the id of the reply the reader
\* is about to handle.
FirstReply(c, msgTypes) ==
    \A t \in msgTypes : << t, Inbound(c).packet.MsgID >> \notin acked[c]

\* C17: handling the first ACK(id) or RECEIVED(id) sets confirm only on a
\* queued SEND with that id and handling the first COMPLETED(id) only on a
\* queued RELEASE with that id, never on another queued packet with an equal
\* msg_id, such as a reply enqueued for the peer's message.
C17_ConfirmMarksOutbound ==
    [][/\ ((ReadAck("A") \/ ReadReceived("A"))
              /\ FirstReply("A", {MsgTypeAck, MsgTypeReceived}))
            => ConfirmMarksOnly("A", MsgTypeSend)
       /\ (ReadCompleted("A") /\ FirstReply("A", {MsgTypeCompleted}))
            => ConfirmMarksOnly("A", MsgTypeRelease)]_vars

(* ------------------------ the clone and the write ---------------------- *)

\* conn.Write returns for the packet the writer holds, with or without an
\* error.
WriteStep(c) == WriterWriteEnv(c) \/ WriterWriteFail(c)

\* C18: at each conn.Write of a packet with qos >= 1 the queue holds a packet
\* of the same type and msg_id whose retry_times is one greater: the retry
\* clone was saved before the write.
C18_CloneSavedBeforeWrite ==
    [][(WriteStep("A") /\ wpkt["A"].Qos # Qos0)
          => Represented(priorityQueue["A"], wpkt["A"].MsgType, wpkt["A"].MsgID,
                         wpkt["A"].RetryTimes + 1)]_vars

\* C18 witness: a retransmission of a QoS 1 or 2 packet was written and the
\* clone saved for its next retry is queued.
C18_Witness ==
    \E h \in written["A"] :
        /\ h.Qos # Qos0
        /\ h.RetryTimes = 1
        /\ Represented(priorityQueue["A"], h.MsgType, h.MsgID, 2)

(* --------------------------- the retry clone --------------------------- *)

\* x is the retry clone of packet p made at clock t: type, qos, msg_id and
\* payload of p, dup set in the struct and in the encoded header, one retry
\* more, due 5 seconds per retry after t.
IsCloneOf(x, p, t) ==
    /\ x.MsgType = p.MsgType
    /\ x.Qos = p.Qos
    /\ x.MsgID = p.MsgID
    /\ x.Payload = p.Payload
    /\ x.Dup
    /\ x.Buffer = Encode(p.MsgType, p.Qos, 1, p.MsgID, p.Payload).Buffer
    /\ x.RetryTimes = p.RetryTimes + 1
    /\ x.Timestamp = t + RetrySeconds * x.RetryTimes

\* How many packets of the queue q are the retry clone of p made at t.
CloneCount(q, p, t) ==
    Cardinality({ i \in 1..Len(q) : IsCloneOf(q[i], p, t) })

\* C19: for the dequeued packet p with qos >= 1 that the writer holds, the
\* step from the dequeue to the write adds to the queue exactly one packet,
\* and it has p's msg_type, qos, msg_id and payload, dup = 1,
\* retry_times = p.retry_times + 1 and timestamp = now + 5 * retry_times,
\* now being the clock that retry reads.
C19_RetryClone ==
    [][(WriterSave("A") /\ wpkt["A"].Qos # Qos0)
          => /\ Len(priorityQueue'["A"]) = Len(priorityQueue["A"]) + 1
             /\ CloneCount(priorityQueue'["A"], wpkt["A"], now)
                   = CloneCount(priorityQueue["A"], wpkt["A"], now) + 1]_vars

\* C19 witness: the writer holds a dequeued first clone (one retry) of a
\* RELEASE at a clock past 0 and its second clone is queued.
C19_Witness ==
    /\ wpc["A"] = "write"
    /\ now > 0
    /\ wpkt["A"].MsgType = MsgTypeRelease
    /\ wpkt["A"].RetryTimes = 1
    /\ CloneCount(priorityQueue["A"], wpkt["A"], now) = 1

(* ------------------------- the QoS 1 timeline -------------------------- *)

\* No ACK has arrived at client c.
NoAckArrived(c) ==
    \A f \in BagToSet(injected) : Decode(f).packet.MsgType # MsgTypeAck

\* The writer runs retry at clock t for the QoS 1 SEND it holds, which was
\* retried k times and was due at clock due, and no ACK has arrived.
RetriesSend1(c, k, due, t) ==
    /\ WriterSave(c)
    /\ NoAckArrived(c)
    /\ now = t
    /\ wpkt[c].MsgType = MsgTypeSend
    /\ wpkt[c].Qos = Qos1
    /\ wpkt[c].RetryTimes = k
    /\ wpkt[c].Timestamp = due

\* The queue q holds a clone of SEND(id) with dup set, k retries and this
\* timestamp.
HoldsClone(q, id, k, timestamp) ==
    \E i \in 1..Len(q) :
        /\ q[i].MsgType = MsgTypeSend
        /\ q[i].MsgID = id
        /\ q[i].Dup
        /\ q[i].RetryTimes = k
        /\ q[i].Timestamp = timestamp

\* C20 as stated: the clone saved at t=0 has
\* timestamp 5, retry_times 1 and dup 1, and the clone saved when that one
\* is dequeued at t=5 has timestamp 10 and retry_times 2.
C20_SecondCloneDueAt10 ==
    [][/\ RetriesSend1("A", 0, 0, 0)
            => HoldsClone(priorityQueue'["A"], wpkt["A"].MsgID, 1, 5)
       /\ RetriesSend1("A", 1, 5, 5)
            => HoldsClone(priorityQueue'["A"], wpkt["A"].MsgID, 2, 10)]_vars

\* C20 amended: for a QoS 1 message whose first transmission is dequeued at t=0,
\* with no ACK arriving, the first clone has timestamp 5, retry_times 1 and
\* dup 1; when that clone is dequeued at t=5 the new clone the writer saves
\* has retry_times 2 and timestamp 15 (5 + 5 * 2), and none is due at 10.
C20_SecondCloneDueAt15 ==
    [][/\ RetriesSend1("A", 0, 0, 0)
            => HoldsClone(priorityQueue'["A"], wpkt["A"].MsgID, 1, 5)
       /\ RetriesSend1("A", 1, 5, 5)
            => /\ HoldsClone(priorityQueue'["A"], wpkt["A"].MsgID, 2, 15)
               /\ ~HoldsClone(priorityQueue'["A"], wpkt["A"].MsgID, 2, 10)]_vars

\* C20 witness: at t=5, with no ACK arrived, the writer holds the first
\* clone (timestamp 5) and has saved the second one.
C20_Witness ==
    /\ NoAckArrived("A")
    /\ now = 5
    /\ wpc["A"] = "write"
    /\ wpkt["A"].MsgType = MsgTypeSend
    /\ wpkt["A"].Qos = Qos1
    /\ wpkt["A"].RetryTimes = 1
    /\ wpkt["A"].Timestamp = 5
    /\ \E i \in 1..Len(priorityQueue["A"]) :
          /\ priorityQueue["A"][i].MsgID = wpkt["A"].MsgID
          /\ priorityQueue["A"][i].RetryTimes = 2

(* ---------------------- the reply and the callback --------------------- *)

\* The reader's handle of a RELEASE invokes the callback: the side map held
\* a payload for the msg_id.
ReleaseCallback(c) ==
    /\ ReadRelease(c)
    /\ delivered'[c] # delivered[c]

\* C21: in the QoS 2 handshake the reply is saved before the callback is
\* invoked: when the handler of RELEASE(id) invokes the callback with the
\* stored payload, a COMPLETED(id) is already in the queue.
C21_ReplySavedBeforeCallback ==
    [][ReleaseCallback("A")
          => CountIn(priorityQueue'["A"], MsgTypeCompleted, Inbound("A").packet.MsgID) >= 1]_vars

(* ------------------------- the error channel --------------------------- *)

\* A loop of client c executes errCh <- err.
SendsError(c) == ReaderFail(c) \/ WriterFail(c)

\* C22: within a connection epoch every errCh <- err of the reader and of
\* the writer finds the channel open and its buffer not full, so that no
\* loop blocks on the send and none sends after close(errCh); the buffer
\* never holds more than its capacity of 2, and when the supervisor closes
\* the channel both loops have returned.
C22_ErrorSendNeverBlocks ==
    /\ [][SendsError("A") => SendOutcome("A") = "done"]_vars
    /\ [](Len(errCh["A"]) <= ErrChCapacity)
    /\ [](ErrChClosed("A") => (rpc["A"] = "done" /\ wpc["A"] = "done"))
    /\ []({rpc["A"], wpc["A"]} \cap {"blocked", "panic"} = {})

\* C22 witness: in an epoch after a reconnect both loops have sent their
\* error and returned before the supervisor received one: the buffer holds
\* two errors.
C22_Witness ==
    /\ dials["A"] >= 1
    /\ sup["A"] = "wait"
    /\ rpc["A"] = "done"
    /\ wpc["A"] = "done"
    /\ Len(errCh["A"]) = ErrChCapacity

====
